---- MODULE Spec2Model ----
(***************************************************************************)
(* Decoding of Claude Code transcript records                              *)
(* (docs/context/cc-transcript-model-example.py).                          *)
(*                                                                         *)
(* JSON values, pydantic model instances and Python dicts are modelled as  *)
(* records of one uniform shape per level (content item, message content,  *)
(* usage, message, transcript record); the field `cls` says whether the    *)
(* value is still raw JSON ("dict", "str", ...) or an instance of one of   *)
(* the model classes ("TextBlock", "TextContent", ...).  A scalar field is  *)
(* a pair [k, s]: k its JSON kind, s its text as a sequence of tokens.     *)
(* An operation that can raise returns [ok, val]: ok = FALSE is the        *)
(* exception propagating to the caller.                                    *)
(***************************************************************************)
EXTENDS Integers, Sequences, FiniteSets, TLC

VARIABLES
    fn,            \* which function the sequential caller invokes
    pc,            \* position of the sequential caller
    item_in,       \* argument of parse_content_item
    item_out,      \* its outcome
    content_in,    \* argument of parse_message_content
    content_out,   \* its outcome
    usage_in,      \* argument of normalize_usage_info
    usage_out,     \* its outcome
    raw,           \* argument of parse_transcript_entry
    raw_after,     \* the caller's dict after the call returned
    result,        \* outcome of parse_transcript_entry(raw)
    json,          \* the decoded entry encoded back to JSON
    result2,       \* outcome of parse_transcript_entry(json)
    transcript,    \* the ordered raw records handed to the parallel map
    mem,           \* the same records as they are in memory now
    results,       \* output slots, one per record index
    claimed,       \* record index each worker is decoding (0: idle)
    completed      \* record indices in completion order

vars == <<fn, pc, item_in, item_out, content_in, content_out, usage_in,
          usage_out, raw, raw_after, result, json, result2, transcript, mem,
          results, claimed, completed>>

----------------------------------------------------------------------------
(* Bounds of the model. *)

\* longest message.content / toolUseResult / queue content sequence
MaxItems == 2
\* longest transcript of the parallel map
MaxLen == 2
\* number of concurrent decoding workers
NumWorkers == 2

----------------------------------------------------------------------------
(* Scalar JSON values. *)

Absent == [k |-> "absent", s |-> <<>>]
Null == [k |-> "null", s |-> <<>>]
JStr(t) == [k |-> "str", s |-> t]
JInt(t) == [k |-> "int", s |-> t]
JBool(t) == [k |-> "bool", s |-> t]
JDict(t) == [k |-> "dict", s |-> t]
JList(t) == [k |-> "list", s |-> t]

\* dict.get(key): the value, None when the key is absent
DictGet(v) == IF v.k = "absent" THEN Null ELSE v

\* dict.get(key, ""): the value, "" when the key is absent
DictGetOrEmpty(v) == IF v.k = "absent" THEN JStr(<<>>) ELSE v

\* a pydantic field declared Optional[...] = None: a missing key reads None
OptDefault(v) == IF v.k = "absent" THEN Null ELSE v

\* Python repr of a scalar inside a container: strings are quoted
PyRepr(v) ==
    CASE v.k = "str" -> <<"'">> \o v.s \o <<"'">>
      [] v.k = "null" -> <<"None">>
      [] OTHER -> v.s

\* Python str of a scalar: a string is itself, everything else is its repr
PyStr(v) == IF v.k = "str" THEN v.s ELSE PyRepr(v)

----------------------------------------------------------------------------
(* Content items: raw JSON objects and instances of the content classes.   *)

ItemFieldOrder ==
    <<"type", "text", "citations", "id", "name", "input", "thinking",
      "signature", "tool_use_id", "content", "is_error", "source",
      "status", "priority">>

SourceFieldOrder == <<"source_type", "media_type", "data">>

EmptyItem ==
    [cls |-> "dict", scalar |-> Absent,
     type |-> Absent, text |-> Absent, citations |-> Absent, id |-> Absent,
     name |-> Absent, input |-> Absent, thinking |-> Absent,
     signature |-> Absent, tool_use_id |-> Absent, content |-> Absent,
     is_error |-> Absent, source |-> Absent, source_type |-> Absent,
     media_type |-> Absent, data |-> Absent, status |-> Absent,
     priority |-> Absent]

\* key of the nested image source dict as it is written in JSON
SourceKey(f) == IF f = "source_type" THEN "type" ELSE f

RECURSIVE ReprFields(_, _, _)
ReprFields(item, order, i) ==
    IF i > Len(order) THEN <<>>
    ELSE LET f == order[i]
             rest == ReprFields(item, order, i + 1)
         IN IF item[f].k = "absent" THEN rest
            ELSE IF f = "source" /\ item[f].k = "dict"
                 THEN <<"'source'", ":", "{">>
                      \o ReprFields(item, SourceFieldOrder, 1)
                      \o <<"}", ",">> \o rest
                 ELSE <<"'" , SourceKey(f), "'", ":">> \o PyRepr(item[f])
                      \o <<",">> \o rest

\* str(item_data): the string rendering of whatever the element is
StrOfItem(item) ==
    IF item.cls = "dict"
    THEN <<"{">> \o ReprFields(item, ItemFieldOrder, 1) \o <<"}">>
    ELSE IF item.cls \in {"str", "int", "null"} THEN PyStr(item.scalar)
    ELSE <<item.cls, "(">> \o ReprFields(item, ItemFieldOrder, 1) \o <<")">>

\* the classes of the ContentItem union (ContentBlock contributes the
\* provider-native TextBlock, ToolUseBlock and ThinkingBlock)
ItemClasses ==
    {"TextBlock", "TextContent", "ToolUseBlock", "ToolUseContent",
     "ThinkingBlock", "ThinkingContent", "ToolResultContent", "ImageContent"}

Raise(v) == [ok |-> FALSE, val |-> v]
Return(v) == [ok |-> TRUE, val |-> v]

\* try: attempt / except Exception: handler
TryExcept(attempt, handler) == IF attempt.ok THEN attempt ELSE handler

IsLiteral(v, t) == v = JStr(<<t>>)

\* class TextContent(BaseModel): type: Literal["text"]; text: str
TextContent_validate(d) ==
    IF d.cls = "TextContent" THEN Return(d)
    ELSE IF d.cls = "dict" /\ IsLiteral(d.type, "text") /\ d.text.k = "str"
    THEN Return([EmptyItem EXCEPT !.cls = "TextContent", !.type = d.type,
                                   !.text = d.text])
    ELSE Raise(d)

\* anthropic.types.TextBlock: citations: Optional[List[...]] = None;
\* text: str; type: Literal["text"]
TextBlock_validate(d) ==
    IF d.cls = "TextBlock" THEN Return(d)
    ELSE IF d.cls = "dict" /\ IsLiteral(d.type, "text") /\ d.text.k = "str"
            /\ d.citations.k \in {"absent", "null", "list"}
    THEN Return([EmptyItem EXCEPT !.cls = "TextBlock", !.type = d.type,
                                   !.text = d.text,
                                   !.citations = OptDefault(d.citations)])
    ELSE Raise(d)

\* class ToolUseContent: type: Literal["tool_use"]; id: str; name: str;
\* input: Dict[str, Any]
ToolUseContent_validate(d) ==
    IF d.cls = "ToolUseContent" THEN Return(d)
    ELSE IF d.cls = "dict" /\ IsLiteral(d.type, "tool_use") /\ d.id.k = "str"
            /\ d.name.k = "str" /\ d.input.k = "dict"
    THEN Return([EmptyItem EXCEPT !.cls = "ToolUseContent", !.type = d.type,
                                   !.id = d.id, !.name = d.name,
                                   !.input = d.input])
    ELSE Raise(d)

\* anthropic.types.ToolUseBlock: id: str; input: object; name: str;
\* type: Literal["tool_use"]
ToolUseBlock_validate(d) ==
    IF d.cls = "ToolUseBlock" THEN Return(d)
    ELSE IF d.cls = "dict" /\ IsLiteral(d.type, "tool_use") /\ d.id.k = "str"
            /\ d.name.k = "str" /\ d.input.k # "absent"
    THEN Return([EmptyItem EXCEPT !.cls = "ToolUseBlock", !.type = d.type,
                                   !.id = d.id, !.name = d.name,
                                   !.input = d.input])
    ELSE Raise(d)

\* class ThinkingContent: type: Literal["thinking"]; thinking: str;
\* signature: Optional[str] = None
ThinkingContent_validate(d) ==
    IF d.cls = "ThinkingContent" THEN Return(d)
    ELSE IF d.cls = "dict" /\ IsLiteral(d.type, "thinking")
            /\ d.thinking.k = "str"
            /\ d.signature.k \in {"absent", "null", "str"}
    THEN Return([EmptyItem EXCEPT !.cls = "ThinkingContent",
                                   !.type = d.type, !.thinking = d.thinking,
                                   !.signature = OptDefault(d.signature)])
    ELSE Raise(d)

\* anthropic.types.ThinkingBlock: signature: str; thinking: str;
\* type: Literal["thinking"]
ThinkingBlock_validate(d) ==
    IF d.cls = "ThinkingBlock" THEN Return(d)
    ELSE IF d.cls = "dict" /\ IsLiteral(d.type, "thinking")
            /\ d.thinking.k = "str" /\ d.signature.k = "str"
    THEN Return([EmptyItem EXCEPT !.cls = "ThinkingBlock", !.type = d.type,
                                   !.thinking = d.thinking,
                                   !.signature = d.signature])
    ELSE Raise(d)

\* class ToolResultContent: type: Literal["tool_result"]; tool_use_id: str;
\* content: Union[str, List[Dict[str, Any]]]; is_error: Optional[bool] = None
ToolResultContent_validate(d) ==
    IF d.cls = "ToolResultContent" THEN Return(d)
    ELSE IF d.cls = "dict" /\ IsLiteral(d.type, "tool_result")
            /\ d.tool_use_id.k = "str" /\ d.content.k \in {"str", "list"}
            /\ d.is_error.k \in {"absent", "null", "bool"}
    THEN Return([EmptyItem EXCEPT !.cls = "ToolResultContent",
                                   !.type = d.type,
                                   !.tool_use_id = d.tool_use_id,
                                   !.content = d.content,
                                   !.is_error = OptDefault(d.is_error)])
    ELSE Raise(d)

\* class ImageSource: type: Literal["base64"]; media_type: str; data: str
ImageSource_validate(d) ==
    /\ d.source.k = "dict"
    /\ IsLiteral(d.source_type, "base64")
    /\ d.media_type.k = "str"
    /\ d.data.k = "str"

\* class ImageContent: type: Literal["image"]; source: ImageSource
ImageContent_validate(d) ==
    IF d.cls = "ImageContent" THEN Return(d)
    ELSE IF d.cls = "dict" /\ IsLiteral(d.type, "image")
            /\ ImageSource_validate(d)
    THEN Return([EmptyItem EXCEPT !.cls = "ImageContent", !.type = d.type,
                                   !.source = d.source,
                                   !.source_type = d.source_type,
                                   !.media_type = d.media_type,
                                   !.data = d.data])
    ELSE Raise(d)

\* TextContent(type="text", text=str(item_data))
FallbackText(item_data) ==
    TextContent_validate([EmptyItem EXCEPT !.type = JStr(<<"text">>),
                                           !.text = JStr(StrOfItem(item_data))])

\* the body of the outer try of parse_content_item
ParseContentItemBody(item_data) ==
    IF item_data.cls # "dict"
    THEN Raise(item_data)      \* item_data.get: AttributeError
    ELSE LET content_type == DictGetOrEmpty(item_data.type)
         IN CASE IsLiteral(content_type, "text") ->
                   TryExcept(TextBlock_validate(item_data),
                             TextContent_validate(item_data))
              [] IsLiteral(content_type, "tool_use") ->
                   TryExcept(ToolUseBlock_validate(item_data),
                             ToolUseContent_validate(item_data))
              [] IsLiteral(content_type, "thinking") ->
                   TryExcept(ThinkingBlock_validate(item_data),
                             ThinkingContent_validate(item_data))
              [] IsLiteral(content_type, "tool_result") ->
                   ToolResultContent_validate(item_data)
              [] IsLiteral(content_type, "image") ->
                   ImageContent_validate(item_data)
              [] OTHER -> FallbackText(item_data)

parse_content_item_unguarded(item_data) == ParseContentItemBody(item_data)

parse_content_item(item_data) ==
    TryExcept(ParseContentItemBody(item_data), FallbackText(item_data))

----------------------------------------------------------------------------
(* Message content: a string, or a sequence of content items.              *)

EmptyContent == [cls |-> "json", k |-> "absent", s |-> <<>>, items |-> <<>>]
ContentStr(t) == [EmptyContent EXCEPT !.k = "str", !.s = t]
ContentList(xs) == [EmptyContent EXCEPT !.k = "list", !.items = xs]
ContentNull == [EmptyContent EXCEPT !.k = "null"]

\* [f(item) for item in xs]: stops at the first element that raises
RECURSIVE MapItems(_, _)
MapItems(xs, i) ==
    IF i > Len(xs) THEN Return(<<>>)
    ELSE LET head == parse_content_item(xs[i])
         IN IF ~head.ok THEN Raise(<<>>)
            ELSE LET tail == MapItems(xs, i + 1)
                 IN IF tail.ok THEN Return(<<head.val>> \o tail.val)
                    ELSE tail

\* [item for item in xs if isinstance(item, dict)]
RECURSIVE SelectDicts(_)
SelectDicts(xs) ==
    IF xs = <<>> THEN <<>>
    ELSE IF Head(xs).cls = "dict" THEN <<Head(xs)>> \o SelectDicts(Tail(xs))
    ELSE SelectDicts(Tail(xs))

parse_message_content_filtered(content_data) ==
    IF content_data.k = "str" THEN Return(content_data)
    ELSE IF content_data.k = "list"
    THEN LET m == MapItems(SelectDicts(content_data.items), 1)
         IN [ok |-> m.ok, val |-> ContentList(m.val)]
    ELSE Return(ContentStr(PyStr([k |-> content_data.k,
                                  s |-> content_data.s])))

RECURSIVE ReverseSeq(_)
ReverseSeq(xs) ==
    IF xs = <<>> THEN <<>> ELSE ReverseSeq(Tail(xs)) \o <<Head(xs)>>

parse_message_content_reversed(content_data) ==
    IF content_data.k = "str" THEN Return(content_data)
    ELSE IF content_data.k = "list"
    THEN LET m == MapItems(ReverseSeq(content_data.items), 1)
         IN [ok |-> m.ok, val |-> ContentList(m.val)]
    ELSE Return(ContentStr(PyStr([k |-> content_data.k,
                                  s |-> content_data.s])))

parse_message_content(content_data) ==
    IF content_data.k = "str" THEN Return(content_data)
    ELSE IF content_data.k = "list"
    THEN LET m == MapItems(content_data.items, 1)
         IN [ok |-> m.ok, val |-> ContentList(m.val)]
    ELSE Return(ContentStr(PyStr([k |-> content_data.k,
                                  s |-> content_data.s])))

\* class TodoItem: id: str; content: str; status: Literal[...];
\* priority: Literal[...]
TodoItem_validate(d) ==
    IF d.cls = "TodoItem" THEN Return(d)
    ELSE IF d.cls = "dict" /\ d.id.k = "str" /\ d.content.k = "str"
            /\ d.status \in {JStr(<<"pending">>), JStr(<<"in_progress">>),
                             JStr(<<"completed">>)}
            /\ d.priority \in {JStr(<<"high">>), JStr(<<"medium">>),
                               JStr(<<"low">>)}
    THEN Return([EmptyItem EXCEPT !.cls = "TodoItem", !.id = d.id,
                                   !.content = d.content,
                                   !.status = d.status,
                                   !.priority = d.priority])
    ELSE Raise(d)

ContentItem_validate_local(x) ==
    IF x.cls \in {"TextContent", "ToolUseContent", "ToolResultContent",
                  "ThinkingContent", "ImageContent"}
    THEN Return(x)
    ELSE TryExcept(TextContent_validate(x),
         TryExcept(ToolUseContent_validate(x),
         TryExcept(ToolResultContent_validate(x),
         TryExcept(ThinkingContent_validate(x),
                   ImageContent_validate(x)))))

\* pydantic validation of one element against the ContentItem union: an
\* instance of a member class is kept as it is, a raw dict is matched
\* against the members in their declared order
ContentItem_validate(x) ==
    IF x.cls \in ItemClasses THEN Return(x)
    ELSE TryExcept(TextContent_validate(x),
         TryExcept(ToolUseContent_validate(x),
         TryExcept(ToolResultContent_validate(x),
         TryExcept(ThinkingContent_validate(x),
         TryExcept(ImageContent_validate(x),
         TryExcept(TextBlock_validate(x),
         TryExcept(ThinkingBlock_validate(x),
                   ToolUseBlock_validate(x))))))))

\* List[T] validation: every element must validate as T
RECURSIVE ListOfContentItem(_, _)
ListOfContentItem(xs, i) ==
    IF i > Len(xs) THEN Return(<<>>)
    ELSE LET head == ContentItem_validate(xs[i])
         IN IF ~head.ok THEN Raise(<<>>)
            ELSE LET tail == ListOfContentItem(xs, i + 1)
                 IN IF tail.ok THEN Return(<<head.val>> \o tail.val)
                    ELSE tail

RECURSIVE ListOfTodoItem(_, _)
ListOfTodoItem(xs, i) ==
    IF i > Len(xs) THEN Return(<<>>)
    ELSE LET head == TodoItem_validate(xs[i])
         IN IF ~head.ok THEN Raise(<<>>)
            ELSE LET tail == ListOfTodoItem(xs, i + 1)
                 IN IF tail.ok THEN Return(<<head.val>> \o tail.val)
                    ELSE tail

\* content: Union[str, List[ContentItem]]
StrOrItems_validate(c) ==
    IF c.k = "str" THEN Return(c)
    ELSE IF c.k = "list"
    THEN LET l == ListOfContentItem(c.items, 1)
         IN [ok |-> l.ok, val |-> ContentList(l.val)]
    ELSE Raise(c)

\* content: List[ContentItem]
Items_validate(c) ==
    IF c.k = "list"
    THEN LET l == ListOfContentItem(c.items, 1)
         IN [ok |-> l.ok, val |-> ContentList(l.val)]
    ELSE Raise(c)

\* content: Optional[List[ContentItem]] = None
OptItems_validate(c) ==
    IF c.k \in {"absent", "null"} THEN Return(ContentNull)
    ELSE Items_validate(c)

\* class EditResult: six Optional fields, so any dict without ill-typed
\* values of those fields is an EditResult
EditResult_validate(t) ==
    IF t.cls = "EditResult" THEN Return(t)
    ELSE IF t.cls = "json" /\ t.k = "dict"
    THEN Return([EmptyContent EXCEPT !.cls = "EditResult", !.k = "dict"])
    ELSE Raise(t)

\* toolUseResult: Optional[ToolUseResult] = None with ToolUseResult =
\* Union[str, List[TodoItem], FileReadResult, CommandResult, TodoResult,
\*       EditResult, List[ContentItem]]
ToolUseResult_validate(t) ==
    IF t.k \in {"absent", "null"} THEN Return(ContentNull)
    ELSE IF t.k = "str" THEN Return(t)
    ELSE IF t.k = "list"
    THEN LET todos == ListOfTodoItem(t.items, 1)
             items == ListOfContentItem(t.items, 1)
         IN IF todos.ok THEN Return(ContentList(todos.val))
            ELSE IF items.ok THEN Return(ContentList(items.val))
            ELSE Raise(t)
    ELSE EditResult_validate(t)

----------------------------------------------------------------------------
(* Token usage and its normalisation.                                      *)

EmptyUsage ==
    [cls |-> "absent", scalar |-> Absent,
     input_tokens |-> Absent, output_tokens |-> Absent,
     cache_creation_input_tokens |-> Absent,
     cache_read_input_tokens |-> Absent,
     service_tier |-> Absent, server_tool_use |-> Absent]

UsageNone == [EmptyUsage EXCEPT !.cls = "null"]

OptInt(v) == v.k \in {"absent", "null", "int"}
OptStr(v) == v.k \in {"absent", "null", "str"}
OptDict(v) == v.k \in {"absent", "null", "dict"}

\* class UsageInfo: six Optional fields (validation of a dict and of the
\* constructor's keyword arguments alike)
UsageInfo_validate(d) ==
    IF d.cls = "UsageInfo" THEN Return(d)
    ELSE IF d.cls = "dict" /\ OptInt(d.input_tokens)
            /\ OptInt(d.output_tokens)
            /\ OptInt(d.cache_creation_input_tokens)
            /\ OptInt(d.cache_read_input_tokens)
            /\ OptStr(d.service_tier) /\ OptDict(d.server_tool_use)
    THEN Return([EmptyUsage EXCEPT
                   !.cls = "UsageInfo",
                   !.input_tokens = OptDefault(d.input_tokens),
                   !.output_tokens = OptDefault(d.output_tokens),
                   !.cache_creation_input_tokens =
                       OptDefault(d.cache_creation_input_tokens),
                   !.cache_read_input_tokens =
                       OptDefault(d.cache_read_input_tokens),
                   !.service_tier = OptDefault(d.service_tier),
                   !.server_tool_use = OptDefault(d.server_tool_use)])
    ELSE Raise(d)

\* anthropic.types.Usage: input_tokens: int and output_tokens: int are
\* required, the other fields Optional; an arbitrary object that is
\* neither a dict nor a Usage is rejected
AnthropicUsage_validate(d) ==
    IF d.cls = "AnthropicUsage" THEN Return(d)
    ELSE IF d.cls = "dict" /\ d.input_tokens.k = "int"
            /\ d.output_tokens.k = "int"
            /\ OptInt(d.cache_creation_input_tokens)
            /\ OptInt(d.cache_read_input_tokens)
            /\ OptStr(d.service_tier) /\ OptDict(d.server_tool_use)
    THEN Return([EmptyUsage EXCEPT
                   !.cls = "AnthropicUsage",
                   !.input_tokens = d.input_tokens,
                   !.output_tokens = d.output_tokens,
                   !.cache_creation_input_tokens =
                       OptDefault(d.cache_creation_input_tokens),
                   !.cache_read_input_tokens =
                       OptDefault(d.cache_read_input_tokens),
                   !.service_tier = OptDefault(d.service_tier),
                   !.server_tool_use = OptDefault(d.server_tool_use)])
    ELSE Raise(d)

\* UsageInfo(input_tokens=getattr(o, "input_tokens", None), ...)
UsageInfoFromAttrs(o) ==
    UsageInfo_validate(
        [EmptyUsage EXCEPT
           !.cls = "dict",
           !.input_tokens = DictGet(o.input_tokens),
           !.output_tokens = DictGet(o.output_tokens),
           !.cache_creation_input_tokens =
               DictGet(o.cache_creation_input_tokens),
           !.cache_read_input_tokens = DictGet(o.cache_read_input_tokens),
           !.service_tier = DictGet(o.service_tier),
           !.server_tool_use = DictGet(o.server_tool_use)])

\* UsageInfo.from_anthropic_usage
from_anthropic_usage(usage) == UsageInfoFromAttrs(usage)

\* hasattr(usage_data, name): a dict has keys, not attributes
HasAttr(u, name) ==
    /\ u.cls \in {"attrs", "UsageInfo", "AnthropicUsage"}
    /\ u[name].k # "absent"

Outcome(r, path) == [ok |-> r.ok, val |-> r.val, path |-> path]

normalize_usage_info_no_dict(usage_data) ==
    IF usage_data.cls = "null"
    THEN Outcome(Return(UsageNone), "none")
    ELSE IF usage_data.cls = "UsageInfo"
    THEN Outcome(Return(usage_data), "canonical")
    ELSE IF usage_data.cls = "AnthropicUsage"
    THEN Outcome(from_anthropic_usage(usage_data), "native")
    ELSE IF HasAttr(usage_data, "input_tokens")
            /\ HasAttr(usage_data, "output_tokens")
    THEN LET strict == AnthropicUsage_validate(usage_data)
             attempt == IF strict.ok THEN from_anthropic_usage(strict.val)
                        ELSE strict
         IN IF attempt.ok
            THEN Outcome(attempt, "duck_native")
            ELSE Outcome(UsageInfoFromAttrs(usage_data), "duck_fallback")
    ELSE Outcome(Return(UsageNone), "other")

normalize_usage_info(usage_data) ==
    IF usage_data.cls = "null"
    THEN Outcome(Return(UsageNone), "none")
    ELSE IF usage_data.cls = "UsageInfo"
    THEN Outcome(Return(usage_data), "canonical")
    ELSE IF usage_data.cls = "AnthropicUsage"
    THEN Outcome(from_anthropic_usage(usage_data), "native")
    ELSE IF HasAttr(usage_data, "input_tokens")
            /\ HasAttr(usage_data, "output_tokens")
    THEN LET strict == AnthropicUsage_validate(usage_data)
             attempt == IF strict.ok THEN from_anthropic_usage(strict.val)
                        ELSE strict
         IN IF attempt.ok
            THEN Outcome(attempt, "duck_native")
            ELSE Outcome(UsageInfoFromAttrs(usage_data), "duck_fallback")
    ELSE IF usage_data.cls = "dict"
    THEN Outcome(UsageInfo_validate(usage_data), "mapping")
    ELSE Outcome(Return(UsageNone), "other")

\* usage: Optional[UsageInfo] = None
OptUsage_validate(u) ==
    IF u.cls \in {"absent", "null"} THEN Return(UsageNone)
    ELSE UsageInfo_validate(u)

----------------------------------------------------------------------------
(* Messages and transcript records.                                        *)

EmptyMessage ==
    [cls |-> "absent", role |-> Absent, content |-> EmptyContent,
     id |-> Absent, type |-> Absent, model |-> Absent, usage |-> EmptyUsage]

EmptyRecord ==
    [cls |-> "dict", type |-> Absent, uuid |-> Absent, sessionId |-> Absent,
     timestamp |-> Absent, summary |-> Absent, leafUuid |-> Absent,
     operation |-> Absent, message |-> EmptyMessage,
     toolUseResult |-> EmptyContent, content |-> EmptyContent]

\* class UserMessage: role: Literal["user"];
\* content: Union[str, List[ContentItem]]
UserMessage_validate(m) ==
    IF m.cls = "dict" /\ IsLiteral(m.role, "user")
    THEN LET c == StrOrItems_validate(m.content)
         IN IF c.ok
            THEN Return([EmptyMessage EXCEPT !.cls = "UserMessage",
                                             !.role = m.role,
                                             !.content = c.val])
            ELSE Raise(m)
    ELSE Raise(m)

\* class AssistantMessage: id: str; type: Literal["message"];
\* role: Literal["assistant"]; model: str; content: List[ContentItem];
\* usage: Optional[UsageInfo] = None
AssistantMessage_validate(m) ==
    IF m.cls = "dict" /\ m.id.k = "str" /\ IsLiteral(m.type, "message")
       /\ IsLiteral(m.role, "assistant") /\ m.model.k = "str"
    THEN LET c == Items_validate(m.content)
             u == OptUsage_validate(m.usage)
         IN IF c.ok /\ u.ok
            THEN Return([EmptyMessage EXCEPT !.cls = "AssistantMessage",
                                             !.id = m.id, !.type = m.type,
                                             !.role = m.role,
                                             !.model = m.model,
                                             !.content = c.val,
                                             !.usage = u.val])
            ELSE Raise(m)
    ELSE Raise(m)

\* class BaseTranscriptEntry: the required session metadata (sessionId,
\* uuid and timestamp stand for the eight required fields, which are all
\* validated alike)
BaseTranscriptEntry_validate(d) ==
    /\ d.cls = "dict"
    /\ d.uuid.k = "str"
    /\ d.sessionId.k = "str"
    /\ d.timestamp.k = "str"

\* class UserTranscriptEntry(BaseTranscriptEntry)
UserTranscriptEntry_validate(d) ==
    IF BaseTranscriptEntry_validate(d) /\ IsLiteral(d.type, "user")
    THEN LET m == UserMessage_validate(d.message)
             t == ToolUseResult_validate(d.toolUseResult)
         IN IF m.ok /\ t.ok
            THEN Return([EmptyRecord EXCEPT
                           !.cls = "UserTranscriptEntry", !.type = d.type,
                           !.uuid = d.uuid, !.sessionId = d.sessionId,
                           !.timestamp = d.timestamp, !.message = m.val,
                           !.toolUseResult = t.val])
            ELSE Raise(d)
    ELSE Raise(d)

\* class AssistantTranscriptEntry(BaseTranscriptEntry)
AssistantTranscriptEntry_validate(d) ==
    IF BaseTranscriptEntry_validate(d) /\ IsLiteral(d.type, "assistant")
    THEN LET m == AssistantMessage_validate(d.message)
         IN IF m.ok
            THEN Return([EmptyRecord EXCEPT
                           !.cls = "AssistantTranscriptEntry",
                           !.type = d.type, !.uuid = d.uuid,
                           !.sessionId = d.sessionId,
                           !.timestamp = d.timestamp, !.message = m.val])
            ELSE Raise(d)
    ELSE Raise(d)

\* class SummaryTranscriptEntry: type; summary: str; leafUuid: str
SummaryTranscriptEntry_validate(d) ==
    IF d.cls = "dict" /\ IsLiteral(d.type, "summary") /\ d.summary.k = "str"
       /\ d.leafUuid.k = "str"
    THEN Return([EmptyRecord EXCEPT
                   !.cls = "SummaryTranscriptEntry", !.type = d.type,
                   !.summary = d.summary, !.leafUuid = d.leafUuid])
    ELSE Raise(d)

\* class SystemTranscriptEntry(BaseTranscriptEntry): type; content: str
SystemTranscriptEntry_validate(d) ==
    IF BaseTranscriptEntry_validate(d) /\ IsLiteral(d.type, "system")
       /\ d.content.k = "str"
    THEN Return([EmptyRecord EXCEPT
                   !.cls = "SystemTranscriptEntry", !.type = d.type,
                   !.uuid = d.uuid, !.sessionId = d.sessionId,
                   !.timestamp = d.timestamp, !.content = d.content])
    ELSE Raise(d)

\* class QueueOperationTranscriptEntry: type;
\* operation: Literal["enqueue", "dequeue"]; timestamp: str; sessionId: str;
\* content: Optional[List[ContentItem]] = None
QueueOperationTranscriptEntry_validate(d) ==
    IF d.cls = "dict" /\ IsLiteral(d.type, "queue-operation")
       /\ d.operation \in {JStr(<<"enqueue">>), JStr(<<"dequeue">>)}
       /\ d.timestamp.k = "str" /\ d.sessionId.k = "str"
    THEN LET c == OptItems_validate(d.content)
         IN IF c.ok
            THEN Return([EmptyRecord EXCEPT
                           !.cls = "QueueOperationTranscriptEntry",
                           !.type = d.type, !.operation = d.operation,
                           !.timestamp = d.timestamp,
                           !.sessionId = d.sessionId, !.content = c.val])
            ELSE Raise(d)
    ELSE Raise(d)

----------------------------------------------------------------------------
(* parse_transcript_entry.                                                 *)

\* d.copy(): a new dict with the same keys, sharing the values
DictAlias(d) == [dict |-> d, fresh |-> FALSE]

DictCopy(d) == [dict |-> d, fresh |-> TRUE]

\* What the caller's dict holds after the call: the writes to data_copy
\* unless data_copy is a new dict, the writes to the message unless the
\* message written to is a new dict
CallerDict(data, data_copy, top, messageShared) ==
    IF ~top.fresh THEN data_copy
    ELSE IF messageShared THEN [data EXCEPT !.message = data_copy.message]
    ELSE data

Decoded(v, after) ==
    [status |-> IF v.ok THEN "ok" ELSE "ValidationError",
     entry |-> IF v.ok THEN v.val ELSE EmptyRecord,
     err |-> Null, data_after |-> after]

\* an exception of a nested decoder leaving parse_transcript_entry
Escaped(data) ==
    [status |-> "Exception", entry |-> EmptyRecord, err |-> Null,
     data_after |-> data]

\* raise ValueError(f"Unknown transcript entry type: {entry_type}")
UnknownEntryTypeWrong(data, entry_type) ==
    [status |-> "UnknownEntryKind", entry |-> EmptyRecord,
     err |-> JStr(<<"unknown">>), data_after |-> data]

UnknownEntryType(data, entry_type) ==
    [status |-> "UnknownEntryKind", entry |-> EmptyRecord,
     err |-> entry_type, data_after |-> data]

\* the list of content items of an MCP tool result
IsContentItemList(t) ==
    /\ t.k = "list"
    /\ Len(t.items) > 0
    /\ t.items[1].cls = "dict"
    /\ t.items[1].type.k # "absent"

ParseToolUseResultFirstOnly(t) ==
    IF IsContentItemList(t)
    THEN LET m == MapItems(<<t.items[1]>>, 1)
         IN [ok |-> m.ok, val |-> ContentList(m.val)]
    ELSE Return(t)

ParseToolUseResult(t) ==
    IF IsContentItemList(t)
    THEN LET m == MapItems(SelectDicts(t.items), 1)
         IN [ok |-> m.ok, val |-> ContentList(m.val)]
    ELSE Return(t)

HasMessageContent(data) ==
    data.message.cls # "absent" /\ data.message.content.k # "absent"

ParseUserEntry(data) ==
    LET top == DictCopy(data)
        msg == DictCopy(data.message)
        parsed == IF HasMessageContent(data)
                  THEN parse_message_content(msg.dict.content)
                  ELSE Return(data.message.content)
        tur == ParseToolUseResult(top.dict.toolUseResult)
        data_copy == [top.dict EXCEPT
                        !.message = [msg.dict EXCEPT !.content = parsed.val],
                        !.toolUseResult = tur.val]
    IN IF ~parsed.ok \/ ~tur.ok THEN Escaped(data)
       ELSE Decoded(UserTranscriptEntry_validate(data_copy),
                    CallerDict(data, data_copy, top,
                               HasMessageContent(data) /\ ~msg.fresh))

ParseAssistantEntry(data) ==
    LET top == DictCopy(data)
        message_copy == DictCopy(data.message)
        parsed == IF HasMessageContent(data)
                  THEN parse_message_content(message_copy.dict.content)
                  ELSE Return(data.message.content)
        usage == IF HasMessageContent(data)
                    /\ data.message.usage.cls # "absent"
                 THEN normalize_usage_info(message_copy.dict.usage)
                 ELSE Outcome(Return(data.message.usage), "skipped")
        data_copy == [top.dict EXCEPT
                        !.message = [message_copy.dict EXCEPT
                                       !.content = parsed.val,
                                       !.usage = usage.val]]
    IN IF ~parsed.ok THEN Escaped(data)
       ELSE IF ~usage.ok THEN Decoded(Raise(data), data)
       ELSE Decoded(AssistantTranscriptEntry_validate(data_copy),
                    CallerDict(data, data_copy, top,
                               HasMessageContent(data)
                               /\ ~message_copy.fresh))

ParseQueueOperationEntrySkip(data) ==
    Decoded(QueueOperationTranscriptEntry_validate(data), data)

ParseQueueOperationEntry(data) ==
    LET top == DictCopy(data)
        parsed == IF data.content.k = "list"
                  THEN parse_message_content(top.dict.content)
                  ELSE Return(data.content)
        data_copy == [top.dict EXCEPT !.content = parsed.val]
    IN IF ~parsed.ok THEN Escaped(data)
       ELSE Decoded(QueueOperationTranscriptEntry_validate(data_copy),
                    CallerDict(data, data_copy, top, FALSE))

parse_transcript_entry(data) ==
    LET entry_type == DictGet(data.type)
    IN CASE IsLiteral(entry_type, "user") -> ParseUserEntry(data)
         [] IsLiteral(entry_type, "assistant") -> ParseAssistantEntry(data)
         [] IsLiteral(entry_type, "summary") ->
              Decoded(SummaryTranscriptEntry_validate(data), data)
         [] IsLiteral(entry_type, "system") ->
              Decoded(SystemTranscriptEntry_validate(data), data)
         [] IsLiteral(entry_type, "queue-operation") ->
              ParseQueueOperationEntry(data)
         [] OTHER -> UnknownEntryType(data, entry_type)

----------------------------------------------------------------------------
(* Encoding a decoded entry back to JSON (pydantic model_dump): every      *)
(* declared field of the instance's class is written, None as null.        *)

ItemDumpFields(cls) ==
    CASE cls = "TextBlock" -> {"type", "text", "citations"}
      [] cls = "TextContent" -> {"type", "text"}
      [] cls \in {"ToolUseBlock", "ToolUseContent"} ->
           {"type", "id", "name", "input"}
      [] cls \in {"ThinkingBlock", "ThinkingContent"} ->
           {"type", "thinking", "signature"}
      [] cls = "ToolResultContent" ->
           {"type", "tool_use_id", "content", "is_error"}
      [] cls = "ImageContent" ->
           {"type", "source", "source_type", "media_type", "data"}
      [] cls = "TodoItem" -> {"id", "content", "status", "priority"}
      [] OTHER -> {}

DumpField(x, f) ==
    IF f \in ItemDumpFields(x.cls) THEN OptDefault(x[f]) ELSE Absent

ItemDump(x) ==
    [cls |-> "dict", scalar |-> Absent,
     type |-> DumpField(x, "type"), text |-> DumpField(x, "text"),
     citations |-> DumpField(x, "citations"), id |-> DumpField(x, "id"),
     name |-> DumpField(x, "name"), input |-> DumpField(x, "input"),
     thinking |-> DumpField(x, "thinking"),
     signature |-> DumpField(x, "signature"),
     tool_use_id |-> DumpField(x, "tool_use_id"),
     content |-> DumpField(x, "content"),
     is_error |-> DumpField(x, "is_error"),
     source |-> DumpField(x, "source"),
     source_type |-> DumpField(x, "source_type"),
     media_type |-> DumpField(x, "media_type"),
     data |-> DumpField(x, "data"), status |-> DumpField(x, "status"),
     priority |-> DumpField(x, "priority")]

ContentDump(c) ==
    [cls |-> "json", k |-> c.k, s |-> c.s,
     items |-> [i \in 1..Len(c.items) |-> ItemDump(c.items[i])]]

UsageDump(u) ==
    IF u.cls = "UsageInfo" THEN [u EXCEPT !.cls = "dict"] ELSE UsageNone

MessageDump(m) ==
    IF m.cls = "UserMessage"
    THEN [EmptyMessage EXCEPT !.cls = "dict", !.role = m.role,
                              !.content = ContentDump(m.content)]
    ELSE IF m.cls = "AssistantMessage"
    THEN [EmptyMessage EXCEPT !.cls = "dict", !.id = m.id, !.type = m.type,
                              !.role = m.role, !.model = m.model,
                              !.content = ContentDump(m.content),
                              !.usage = UsageDump(m.usage)]
    ELSE m

model_dump(e) ==
    CASE e.cls = "UserTranscriptEntry" ->
           [EmptyRecord EXCEPT
              !.type = e.type, !.uuid = e.uuid, !.sessionId = e.sessionId,
              !.timestamp = e.timestamp, !.message = MessageDump(e.message),
              !.toolUseResult = ContentDump(e.toolUseResult)]
      [] e.cls = "AssistantTranscriptEntry" ->
           [EmptyRecord EXCEPT
              !.type = e.type, !.uuid = e.uuid, !.sessionId = e.sessionId,
              !.timestamp = e.timestamp, !.message = MessageDump(e.message)]
      [] e.cls = "SummaryTranscriptEntry" ->
           [EmptyRecord EXCEPT
              !.type = e.type, !.summary = e.summary,
              !.leafUuid = e.leafUuid]
      [] e.cls = "SystemTranscriptEntry" ->
           [EmptyRecord EXCEPT
              !.type = e.type, !.uuid = e.uuid, !.sessionId = e.sessionId,
              !.timestamp = e.timestamp, !.content = ContentDump(e.content)]
      [] e.cls = "QueueOperationTranscriptEntry" ->
           [EmptyRecord EXCEPT
              !.type = e.type, !.operation = e.operation,
              !.timestamp = e.timestamp, !.sessionId = e.sessionId,
              !.content = ContentDump(e.content)]
      [] OTHER -> e

----------------------------------------------------------------------------
(* The raw values the callers hand in.                                     *)

T(x) == JStr(<<x>>)

ItText == [EmptyItem EXCEPT !.type = T("text"), !.text = T("hi")]
ItTextCitations ==
    [EmptyItem EXCEPT !.type = T("text"), !.text = T("hi"),
                      !.citations = JList(<<"[]">>)]
ItTextBadCitations ==
    [EmptyItem EXCEPT !.type = T("text"), !.text = T("hi"),
                      !.citations = T("bad")]
ItTextNoText == [EmptyItem EXCEPT !.type = T("text"), !.text = JInt(<<"5">>)]
ItToolUse ==
    [EmptyItem EXCEPT !.type = T("tool_use"), !.id = T("tu1"),
                      !.name = T("Bash"), !.input = JDict(<<"{}">>)]
ItToolUseStrInput ==
    [EmptyItem EXCEPT !.type = T("tool_use"), !.id = T("tu1"),
                      !.name = T("Bash"), !.input = T("ls")]
ItToolUseNoId ==
    [EmptyItem EXCEPT !.type = T("tool_use"), !.name = T("Bash"),
                      !.input = JDict(<<"{}">>)]
ItThinkingSigned ==
    [EmptyItem EXCEPT !.type = T("thinking"), !.thinking = T("hmm"),
                      !.signature = T("sig")]
ItThinking == [EmptyItem EXCEPT !.type = T("thinking"), !.thinking = T("hmm")]
ItThinkingBad ==
    [EmptyItem EXCEPT !.type = T("thinking"), !.thinking = JInt(<<"5">>)]
ItToolResult ==
    [EmptyItem EXCEPT !.type = T("tool_result"), !.tool_use_id = T("tu1"),
                      !.content = T("done")]
ItToolResultNoId ==
    [EmptyItem EXCEPT !.type = T("tool_result"), !.content = T("done")]
ItImage ==
    [EmptyItem EXCEPT !.type = T("image"), !.source = JDict(<<>>),
                      !.source_type = T("base64"),
                      !.media_type = T("image/png"), !.data = T("AAAA")]
ItImageUrl ==
    [EmptyItem EXCEPT !.type = T("image"), !.source = JDict(<<>>),
                      !.source_type = T("url"), !.data = T("http://x")]
ItUnknown == [EmptyItem EXCEPT !.type = T("foo"), !.text = T("hi")]
ItTypeInt == [EmptyItem EXCEPT !.type = JInt(<<"5">>), !.text = T("hi")]
ItNoType == [EmptyItem EXCEPT !.text = T("hi")]
ItEmptyDict == EmptyItem
ItPlainStr == [EmptyItem EXCEPT !.cls = "str", !.scalar = T("plain")]
ItTodo ==
    [EmptyItem EXCEPT !.id = T("1"), !.content = T("write"),
                      !.status = T("pending"), !.priority = T("high")]
ItTypedTodo == [ItTodo EXCEPT !.type = T("todo")]

RawItems ==
    {ItText, ItTextCitations, ItTextBadCitations, ItTextNoText, ItToolUse,
     ItToolUseStrInput, ItToolUseNoId, ItThinkingSigned, ItThinking,
     ItThinkingBad, ItToolResult, ItToolResultNoId, ItImage, ItImageUrl,
     ItUnknown, ItTypeInt, ItNoType, ItEmptyDict, ItPlainStr, ItTodo,
     ItTypedTodo}

\* the elements the sequences inside transcript records are built from
ListItems ==
    {ItText, ItTextBadCitations, ItThinking, ItToolUse, ItUnknown, ItNoType,
     ItPlainStr, ItTodo}

SeqsUpTo(S, n) == UNION {[1..m -> S] : m \in 0..n}

RawContents ==
    {ContentStr(<<"hello">>), ContentNull,
     [EmptyContent EXCEPT !.k = "int", !.s = <<"7">>]}
    \cup {ContentList(xs) : xs \in SeqsUpTo(RawItems, MaxItems)}

RecordLists == {ContentList(xs) : xs \in SeqsUpTo(ListItems, MaxItems)}

TokenValues == {Absent, Null, JInt(<<"5">>), T("abc")}

\* usage values as mappings (JSON objects) and as attribute objects
ShapedUsages ==
    {[EmptyUsage EXCEPT !.cls = c, !.input_tokens = i, !.output_tokens = o,
                        !.cache_creation_input_tokens = cc]
       : c \in {"dict", "attrs"}, i \in TokenValues, o \in TokenValues,
         cc \in {Absent, Null}}

RawUsages ==
    ShapedUsages
    \cup {UsageNone,
          [EmptyUsage EXCEPT !.cls = "str", !.scalar = T("n/a")],
          [EmptyUsage EXCEPT !.cls = "AnthropicUsage",
                             !.input_tokens = JInt(<<"3">>),
                             !.output_tokens = JInt(<<"7">>),
                             !.cache_creation_input_tokens = Null,
                             !.cache_read_input_tokens = Null,
                             !.service_tier = T("standard"),
                             !.server_tool_use = Null],
          [EmptyUsage EXCEPT !.cls = "UsageInfo",
                             !.input_tokens = JInt(<<"3">>),
                             !.output_tokens = Null,
                             !.cache_creation_input_tokens = Null,
                             !.cache_read_input_tokens = Null,
                             !.service_tier = Null,
                             !.server_tool_use = Null]}

\* usage values a JSON transcript line can hold
JsonUsages ==
    {u \in RawUsages : u.cls \in {"dict", "null", "str"}} \cup {EmptyUsage}

BaseRecord(t) ==
    [EmptyRecord EXCEPT !.type = t, !.uuid = T("u1"), !.sessionId = T("s1"),
                        !.timestamp = T("t1")]

UserMsg(c) == [EmptyMessage EXCEPT !.cls = "dict", !.role = T("user"),
                                   !.content = c]

AssistantMsg(c, u) ==
    [EmptyMessage EXCEPT !.cls = "dict", !.id = T("m1"),
                         !.type = T("message"), !.role = T("assistant"),
                         !.model = T("claude"), !.content = c, !.usage = u]

UserRecord(c, t) ==
    [BaseRecord(T("user")) EXCEPT !.message = UserMsg(c), !.toolUseResult = t]

AssistantRecord(c, u) ==
    [BaseRecord(T("assistant")) EXCEPT !.message = AssistantMsg(c, u)]

SummaryRecord(sm) ==
    [EmptyRecord EXCEPT !.type = T("summary"), !.summary = sm,
                        !.leafUuid = T("u1")]

SystemRecord(c) == [BaseRecord(T("system")) EXCEPT !.content = c]

QueueRecord(op, c) ==
    [EmptyRecord EXCEPT !.type = T("queue-operation"), !.operation = op,
                        !.timestamp = T("t1"), !.sessionId = T("s1"),
                        !.content = c]

ScalarContents ==
    {EmptyContent, ContentNull, ContentStr(<<"hello">>),
     [EmptyContent EXCEPT !.k = "int", !.s = <<"7">>]}

RawToolUseResults ==
    ScalarContents \cup RecordLists
    \cup {[EmptyContent EXCEPT !.k = "dict"]}

UserRecords ==
    {UserRecord(c, EmptyContent) : c \in ScalarContents \cup RecordLists}
    \cup {UserRecord(ContentStr(<<"hello">>), t) : t \in RawToolUseResults}
    \cup {UserRecord(ContentList(<<ItUnknown, ItText>>),
                     ContentList(<<ItText, ItPlainStr>>)),
          [UserRecord(ContentList(<<ItUnknown>>), EmptyContent)
             EXCEPT !.uuid = JInt(<<"5">>)],
          [UserRecord(ContentList(<<ItText>>), EmptyContent)
             EXCEPT !.message.role = T("assistant")],
          BaseRecord(T("user"))}

AssistantRecords ==
    {AssistantRecord(c, EmptyUsage) : c \in ScalarContents \cup RecordLists}
    \cup {AssistantRecord(ContentList(<<ItText>>), u) : u \in JsonUsages}
    \cup {[AssistantRecord(ContentList(<<ItText>>), EmptyUsage)
             EXCEPT !.message.model = Absent],
          BaseRecord(T("assistant"))}

OtherRecords ==
    {SummaryRecord(T("recap")), SummaryRecord(JInt(<<"5">>)),
     SystemRecord(ContentStr(<<"warning">>)),
     SystemRecord(ContentList(<<ItText>>)),
     [SystemRecord(ContentStr(<<"warning">>)) EXCEPT !.timestamp = Absent]}
    \cup {QueueRecord(T("enqueue"), c) : c \in ScalarContents \cup RecordLists}
    \cup {QueueRecord(T("dequeue"), EmptyContent),
          QueueRecord(T("peek"), EmptyContent)}
    \cup {BaseRecord(t) : t \in {Absent, Null, T("foo"), T("User"),
                                 JInt(<<"5">>), T("")}}

RawRecords == UserRecords \cup AssistantRecords \cup OtherRecords

\* the records the transcripts of the parallel map are built from
TranscriptRecords ==
    {UserRecord(ContentList(<<ItUnknown, ItText>>),
                ContentList(<<ItText, ItPlainStr>>)),
     AssistantRecord(ContentList(<<ItThinking, ItToolUse>>),
                     [EmptyUsage EXCEPT !.cls = "dict",
                                        !.input_tokens = JInt(<<"5">>)]),
     SummaryRecord(T("recap")),
     QueueRecord(T("enqueue"), ContentList(<<ItText>>)),
     [UserRecord(ContentList(<<ItUnknown>>), EmptyContent)
        EXCEPT !.uuid = JInt(<<"5">>)],
     BaseRecord(T("foo"))}

----------------------------------------------------------------------------
(* The sequential caller: one call of one decoder, and for a transcript    *)
(* record the encoding of the decoded entry and its second decoding.       *)

NoOutcome == [ok |-> FALSE, val |-> EmptyItem]
NoContentOutcome == [ok |-> FALSE, val |-> EmptyContent]
NoUsageOutcome == [ok |-> FALSE, val |-> EmptyUsage, path |-> "none"]
NoResult ==
    [status |-> "pending", entry |-> EmptyRecord, err |-> Null,
     data_after |-> EmptyRecord]

ParallelIdle ==
    /\ transcript = <<>>
    /\ mem = <<>>
    /\ results = <<>>
    /\ claimed = [w \in 1..NumWorkers |-> 0]
    /\ completed = <<>>

SequentialIdle ==
    /\ fn = "none"
    /\ pc = "idle"
    /\ item_in = EmptyItem
    /\ item_out = NoOutcome
    /\ content_in = EmptyContent
    /\ content_out = NoContentOutcome
    /\ usage_in = EmptyUsage
    /\ usage_out = NoUsageOutcome
    /\ raw = EmptyRecord
    /\ raw_after = EmptyRecord
    /\ result = NoResult
    /\ json = EmptyRecord
    /\ result2 = NoResult

Init ==
    /\ fn \in {"parse_content_item", "parse_message_content",
               "normalize_usage_info", "parse_transcript_entry"}
    /\ pc = "call"
    /\ item_in \in (IF fn = "parse_content_item" THEN RawItems
                    ELSE {EmptyItem})
    /\ content_in \in (IF fn = "parse_message_content" THEN RawContents
                       ELSE {EmptyContent})
    /\ usage_in \in (IF fn = "normalize_usage_info" THEN RawUsages
                     ELSE {EmptyUsage})
    /\ raw \in (IF fn = "parse_transcript_entry" THEN RawRecords
                ELSE {EmptyRecord})
    /\ item_out = NoOutcome
    /\ content_out = NoContentOutcome
    /\ usage_out = NoUsageOutcome
    /\ raw_after = raw
    /\ result = NoResult
    /\ json = EmptyRecord
    /\ result2 = NoResult
    /\ ParallelIdle

parallelVars == <<transcript, mem, results, claimed, completed>>
itemVars == <<item_in, item_out>>
contentVars == <<content_in, content_out>>
usageVars == <<usage_in, usage_out>>
entryVars == <<raw, raw_after, result, json, result2>>

CallParseContentItem ==
    /\ fn = "parse_content_item" /\ pc = "call"
    /\ item_out' = parse_content_item(item_in)
    /\ pc' = "done"
    /\ UNCHANGED <<fn, item_in, contentVars, usageVars, entryVars,
                   parallelVars>>

CallParseMessageContent ==
    /\ fn = "parse_message_content" /\ pc = "call"
    /\ content_out' = parse_message_content(content_in)
    /\ pc' = "done"
    /\ UNCHANGED <<fn, content_in, itemVars, usageVars, entryVars,
                   parallelVars>>

CallNormalizeUsageInfo ==
    /\ fn = "normalize_usage_info" /\ pc = "call"
    /\ usage_out' = normalize_usage_info(usage_in)
    /\ pc' = "done"
    /\ UNCHANGED <<fn, usage_in, itemVars, contentVars, entryVars,
                   parallelVars>>

CallParseTranscriptEntry ==
    /\ fn = "parse_transcript_entry" /\ pc = "call"
    /\ result' = parse_transcript_entry(raw)
    /\ raw_after' = result'.data_after
    /\ pc' = "done"
    /\ UNCHANGED <<fn, raw, json, result2, itemVars, contentVars, usageVars,
                   parallelVars>>

\* the decoded entry written back as JSON
Encode ==
    /\ fn = "parse_transcript_entry" /\ pc = "done"
    /\ result.status = "ok"
    /\ json' = model_dump(result.entry)
    /\ pc' = "encoded"
    /\ UNCHANGED <<fn, raw, raw_after, result, result2, itemVars,
                   contentVars, usageVars, parallelVars>>

\* and decoded a second time
Redecode ==
    /\ fn = "parse_transcript_entry" /\ pc = "encoded"
    /\ result2' = parse_transcript_entry(json)
    /\ pc' = "redecoded"
    /\ UNCHANGED <<fn, raw, raw_after, result, json, itemVars, contentVars,
                   usageVars, parallelVars>>

Next ==
    \/ CallParseContentItem
    \/ CallParseMessageContent
    \/ CallNormalizeUsageInfo
    \/ CallParseTranscriptEntry
    \/ Encode
    \/ Redecode

Spec == Init /\ [][Next]_vars

----------------------------------------------------------------------------
(* The parallel map over a transcript: each worker takes a record that no  *)
(* worker has taken, decodes it and stores the outcome at the record's     *)
(* index.                                                                  *)

Workers == 1..NumWorkers

InitPar ==
    /\ SequentialIdle
    /\ transcript \in UNION {[1..n -> TranscriptRecords] : n \in 1..MaxLen}
    /\ mem = transcript
    /\ results = [i \in 1..Len(transcript) |-> NoResult]
    /\ claimed = [w \in Workers |-> 0]
    /\ completed = <<>>

sequentialVars ==
    <<fn, pc, itemVars, contentVars, usageVars, entryVars>>

Taken(i) ==
    \/ \E w \in Workers : claimed[w] = i
    \/ \E j \in 1..Len(completed) : completed[j] = i

Take(w, i) ==
    /\ claimed[w] = 0
    /\ ~Taken(i)
    /\ claimed' = [claimed EXCEPT ![w] = i]
    /\ UNCHANGED <<transcript, mem, results, completed, sequentialVars>>

Decode(w) ==
    /\ claimed[w] # 0
    /\ LET i == claimed[w]
           r == parse_transcript_entry(mem[i])
       IN /\ results' = [results EXCEPT ![i] = r]
          /\ mem' = [mem EXCEPT ![i] = r.data_after]
          /\ completed' = Append(completed, i)
    /\ claimed' = [claimed EXCEPT ![w] = 0]
    /\ UNCHANGED <<transcript, sequentialVars>>

NextPar ==
    \/ \E w \in Workers : \E i \in 1..Len(transcript) : Take(w, i)
    \/ \E w \in Workers : Decode(w)

SpecPar == InitPar /\ [][NextPar]_vars

----------------------------------------------------------------------------
(* Properties.                                                             *)

EntryDecoded ==
    fn = "parse_transcript_entry" /\ pc \in {"done", "encoded", "redecoded"}

KnownEntryTypes ==
    {T("user"), T("assistant"), T("summary"), T("system"),
     T("queue-operation")}

VariantOf(t) ==
    CASE t = T("user") -> "UserTranscriptEntry"
      [] t = T("assistant") -> "AssistantTranscriptEntry"
      [] t = T("summary") -> "SummaryTranscriptEntry"
      [] t = T("system") -> "SystemTranscriptEntry"
      [] t = T("queue-operation") -> "QueueOperationTranscriptEntry"
      [] OTHER -> "none"

\* C1: parse_transcript_entry dispatches on the top-level type only: a
\* record of a known type that decodes yields the variant of that type and
\* never the unknown-type error; a record of any other type (absent
\* included) fails with the unknown-type error carrying exactly the value
\* read from the record, and returns no entry.
C1_Dispatch ==
    EntryDecoded =>
      IF raw.type \in KnownEntryTypes
      THEN /\ result.status # "UnknownEntryKind"
           /\ result.status = "ok" =>
                /\ result.entry.cls = VariantOf(raw.type)
                /\ result.entry.type = raw.type
      ELSE /\ result.status = "UnknownEntryKind"
           /\ result.err = (IF raw.type.k = "absent" THEN Null ELSE raw.type)
           /\ result.entry = EmptyRecord

C1_Witness ==
    /\ EntryDecoded
    /\ raw.type = T("User")
    /\ result.status = "UnknownEntryKind"
    /\ result.err = T("User")

KnownContentTypes ==
    {T("text"), T("tool_use"), T("thinking"), T("tool_result"), T("image")}

\* the input matches no known content shape: it is no object, has no type,
\* has a type outside the five known ones, or fails every shape tried for
\* its type
NoKnownShape(x) ==
    \/ x.cls # "dict"
    \/ x.type.k = "absent"
    \/ x.type \notin KnownContentTypes
    \/ /\ x.type = T("text")
       /\ ~TextBlock_validate(x).ok /\ ~TextContent_validate(x).ok
    \/ /\ x.type = T("tool_use")
       /\ ~ToolUseBlock_validate(x).ok /\ ~ToolUseContent_validate(x).ok
    \/ /\ x.type = T("thinking")
       /\ ~ThinkingBlock_validate(x).ok /\ ~ThinkingContent_validate(x).ok
    \/ x.type = T("tool_result") /\ ~ToolResultContent_validate(x).ok
    \/ x.type = T("image") /\ ~ImageContent_validate(x).ok

TextItemOf(x) ==
    [EmptyItem EXCEPT !.cls = "TextContent", !.type = T("text"),
                      !.text = JStr(StrOfItem(x))]

\* C2: parse_content_item is total: it always returns a content item and
\* never raises, and an input that matches no known shape comes back as a
\* Text item whose text is the string rendering of the input.
C2_Total ==
    (fn = "parse_content_item" /\ pc = "done") =>
      /\ item_out.ok
      /\ item_out.val.cls \in ItemClasses
      /\ NoKnownShape(item_in) => item_out.val = TextItemOf(item_in)

C2_Witness ==
    /\ fn = "parse_content_item" /\ pc = "done"
    /\ item_in = ItTextNoText
    /\ item_out.ok
    /\ item_out.val = TextItemOf(ItTextNoText)

AllTodoItems(xs) == \A i \in 1..Len(xs) : TodoItem_validate(xs[i]).ok

ObjectWithType(x) == x.cls = "dict" /\ x.type.k # "absent"

\* every field other than the elements of message.content is well-formed
WellFormedOutsideItems(d) ==
    /\ d.uuid.k = "str" /\ d.sessionId.k = "str" /\ d.timestamp.k = "str"
    /\ d.message.cls = "dict"
    /\ d.message.content.k = "list"
    /\ \/ /\ d.type = T("user")
          /\ d.message.role = T("user")
          /\ \/ d.toolUseResult.k \in {"absent", "null", "str", "dict"}
             \/ /\ d.toolUseResult.k = "list"
                /\ \/ d.toolUseResult.items = <<>>
                   \/ ObjectWithType(d.toolUseResult.items[1])
                   \/ AllTodoItems(d.toolUseResult.items)
       \/ /\ d.type = T("assistant")
          /\ d.message.role = T("assistant")
          /\ d.message.id.k = "str"
          /\ d.message.type = T("message")
          /\ d.message.model.k = "str"
          /\ \/ d.message.usage.cls \in {"absent", "null"}
             \/ /\ d.message.usage.cls = "dict"
                /\ OptInt(d.message.usage.input_tokens)
                /\ OptInt(d.message.usage.output_tokens)
                /\ OptInt(d.message.usage.cache_creation_input_tokens)
                /\ OptInt(d.message.usage.cache_read_input_tokens)
                /\ OptStr(d.message.usage.service_tier)
                /\ OptDict(d.message.usage.server_tool_use)

\* C3: a user or assistant record whose fields other than the elements of
\* message.content are well-formed always decodes, whatever the elements
\* are; every element that matches no known shape is degraded to a Text
\* item.
C3_ItemsNeverFatal ==
    (EntryDecoded /\ WellFormedOutsideItems(raw)) =>
      /\ result.status = "ok"
      /\ LET ins == raw.message.content.items
             outs == result.entry.message.content.items
         IN /\ Len(outs) = Len(ins)
            /\ \A i \in 1..Len(ins) :
                 /\ outs[i].cls \in ItemClasses
                 /\ NoKnownShape(ins[i]) => outs[i] = TextItemOf(ins[i])

C3_Witness ==
    /\ EntryDecoded
    /\ WellFormedOutsideItems(raw)
    /\ raw.type = T("assistant")
    /\ raw.message.content.items = <<ItPlainStr, ItText>>
    /\ result.status = "ok"
    /\ result.entry.message.content.items[1] = TextItemOf(ItPlainStr)
    /\ result.entry.message.content.items[2].cls = "TextBlock"

\* C4: normalize_usage_info never raises: every input yields a canonical
\* UsageInfo record or None.
C4_NeverRaises ==
    (fn = "normalize_usage_info" /\ pc = "done") =>
      /\ usage_out.ok
      /\ usage_out.val.cls \in {"UsageInfo", "null"}

\* C5: parse_message_content maps a sequence of N raw elements to exactly N
\* content items, the i-th being the decoding of the i-th raw element, and
\* passes a string through unchanged.
C5_OrderPreserved ==
    (fn = "parse_message_content" /\ pc = "done") =>
      /\ content_in.k = "str" =>
           content_out.ok /\ content_out.val = content_in
      /\ content_in.k = "list" =>
           /\ content_out.ok
           /\ content_out.val.k = "list"
           /\ Len(content_out.val.items) = Len(content_in.items)
           /\ \A i \in 1..Len(content_in.items) :
                content_out.val.items[i]
                  = parse_content_item(content_in.items[i]).val

C5_Witness ==
    /\ fn = "parse_message_content" /\ pc = "done"
    /\ content_in.items = <<ItPlainStr, ItToolUse>>
    /\ content_out.val.items[1].cls = "TextContent"
    /\ content_out.val.items[2].cls = "ToolUseBlock"

EntryItems(e) ==
    e.message.content.items \o e.toolUseResult.items \o e.content.items

\* C6 as stated: encoding a decoded entry and decoding it again yields an
\* equal entry, for every entry.
C6_RoundTrip ==
    (fn = "parse_transcript_entry" /\ pc = "redecoded") =>
      /\ result2.status = "ok"
      /\ result2.entry = result.entry

LocalTextOrToolUse(e) ==
    \E i \in 1..Len(EntryItems(e)) :
      EntryItems(e)[i].cls \in {"TextContent", "ToolUseContent"}

\* C6 amended: encoding a decoded entry and decoding it again yields an
\* equal entry, provided the entry holds no content item of the local Text
\* or local ToolUse shape (the second decoding turns those into the
\* provider-native shape).
C6_RoundTripNative ==
    (fn = "parse_transcript_entry" /\ pc = "redecoded"
       /\ ~LocalTextOrToolUse(result.entry)) =>
      /\ result2.status = "ok"
      /\ result2.entry = result.entry

C6_Witness ==
    /\ fn = "parse_transcript_entry" /\ pc = "redecoded"
    /\ raw.type = T("assistant")
    /\ Len(result.entry.message.content.items) = 2
    /\ result.entry.message.content.items[1].cls = "ThinkingContent"
    /\ result.entry.message.content.items[2].cls = "ToolUseBlock"
    /\ result2.entry = result.entry

OnlyInputTokens(u) ==
    /\ u.cls \in {"dict", "attrs"}
    /\ u.input_tokens.k \notin {"absent", "null"}
    /\ u.output_tokens.k = "absent"

\* C7 as stated: a usage input with input_tokens set and no output_tokens
\* yields a non-null canonical record with input_tokens as given, through
\* the duck-typed attribute-extraction fallback.
C7_DuckTypedFallback ==
    (fn = "normalize_usage_info" /\ pc = "done"
       /\ OnlyInputTokens(usage_in) /\ usage_in.input_tokens.k = "int") =>
      /\ usage_out.ok
      /\ usage_out.val.cls = "UsageInfo"
      /\ usage_out.val.input_tokens = usage_in.input_tokens
      /\ usage_out.path = "duck_fallback"

\* C7 amended: a plain mapping with an integer input_tokens and no
\* output_tokens yields a non-null canonical record with input_tokens as
\* given and every missing field null, through the plain-mapping
\* validation; an attribute object that has input_tokens but no
\* output_tokens yields None; the duck-typed fallback is taken only by
\* inputs exposing both attributes.
C7_MappingPath ==
    (fn = "normalize_usage_info" /\ pc = "done") =>
      /\ (OnlyInputTokens(usage_in) /\ usage_in.cls = "dict"
            /\ usage_in.input_tokens.k = "int") =>
           /\ usage_out.ok
           /\ usage_out.path = "mapping"
           /\ usage_out.val =
                [EmptyUsage EXCEPT
                   !.cls = "UsageInfo",
                   !.input_tokens = usage_in.input_tokens,
                   !.output_tokens = Null,
                   !.cache_creation_input_tokens = Null,
                   !.cache_read_input_tokens = Null,
                   !.service_tier = Null,
                   !.server_tool_use = Null]
      /\ (OnlyInputTokens(usage_in) /\ usage_in.cls = "attrs") =>
           usage_out.ok /\ usage_out.val = UsageNone
      /\ usage_out.path = "duck_fallback" =>
           /\ usage_in.input_tokens.k # "absent"
           /\ usage_in.output_tokens.k # "absent"

C7_Witness ==
    /\ fn = "normalize_usage_info" /\ pc = "done"
    /\ usage_in.cls = "dict"
    /\ usage_in.input_tokens = JInt(<<"5">>)
    /\ usage_in.output_tokens = Absent
    /\ usage_out.path = "mapping"
    /\ usage_out.val.cls = "UsageInfo"
    /\ usage_out.val.output_tokens = Null

AllDecoded == Len(completed) = Len(transcript)

Outcome3(r) == <<r.status, r.entry, r.err>>

\* C8: whatever the interleaving and the completion order of the workers,
\* once every record is decoded the output slots hold, index by index, what
\* decoding the transcript sequentially yields, and no decode call changes
\* a raw record.
C8_ParallelMap ==
    /\ mem = transcript
    /\ AllDecoded =>
         \A i \in 1..Len(transcript) :
           Outcome3(results[i])
             = Outcome3(parse_transcript_entry(transcript[i]))

C8_Witness ==
    /\ Len(transcript) = 2
    /\ completed = <<2, 1>>
    /\ transcript[1].type = T("user")
    /\ transcript[2].type = T("assistant")
    /\ results[1].status = "ok"
    /\ results[2].status = "ok"
    /\ mem = transcript

IsObject(x) == x.cls = "dict"

McpToolResult(d) ==
    /\ d.type = T("user")
    /\ d.toolUseResult.k = "list"
    /\ d.toolUseResult.items # <<>>
    /\ ObjectWithType(d.toolUseResult.items[1])

\* C9 as stated: the decoded toolUseResult of an MCP-style tool result
\* holds one content item per element of the raw sequence, in order, none
\* dropped, and is no EditResult.
C9_EveryElement ==
    (EntryDecoded /\ McpToolResult(raw) /\ result.status = "ok") =>
      LET ins == raw.toolUseResult.items
          out == result.entry.toolUseResult
      IN /\ out.k = "list" /\ out.cls # "EditResult"
         /\ Len(out.items) = Len(ins)
         /\ \A i \in 1..Len(ins) :
              out.items[i] = parse_content_item(ins[i]).val

\* C9 amended: the decoded toolUseResult of an MCP-style tool result holds
\* one content item per element of the raw sequence that is an object, in
\* order, each the decoding of that element; elements that are not objects
\* are dropped; the result is neither an EditResult nor a todo list.
C9_EveryObject ==
    (EntryDecoded /\ McpToolResult(raw) /\ result.status = "ok") =>
      LET ins == SelectSeq(raw.toolUseResult.items, IsObject)
          out == result.entry.toolUseResult
      IN /\ out.k = "list" /\ out.cls # "EditResult"
         /\ Len(out.items) = Len(ins)
         /\ \A i \in 1..Len(ins) :
              /\ out.items[i] = parse_content_item(ins[i]).val
              /\ out.items[i].cls \in ItemClasses

C9_Witness ==
    /\ EntryDecoded
    /\ raw.type = T("user")
    /\ raw.toolUseResult.items = <<ItText, ItPlainStr>>
    /\ result.status = "ok"
    /\ Len(result.entry.toolUseResult.items) = 1
    /\ result.entry.toolUseResult.items[1].cls = "TextBlock"

QueueWellFormed(d) ==
    /\ d.type = T("queue-operation")
    /\ d.operation \in {T("enqueue"), T("dequeue")}
    /\ d.timestamp.k = "str"
    /\ d.sessionId.k = "str"

QueueContentDecoded ==
    /\ result.status = "ok"
    /\ result.entry.content.k = "list"
    /\ Len(result.entry.content.items) = Len(raw.content.items)
    /\ \A i \in 1..Len(raw.content.items) :
         result.entry.content.items[i]
           = parse_content_item(raw.content.items[i]).val

\* C10 as stated: a well-formed queue-operation record always decodes; a
\* content that is a sequence is decoded element by element, any other
\* content (missing, or e.g. a plain string) leaves the content absent.
C10_QueueContent ==
    (EntryDecoded /\ QueueWellFormed(raw)) =>
      IF raw.content.k = "list" THEN QueueContentDecoded
      ELSE result.status = "ok" /\ result.entry.content = ContentNull

\* C10 amended: a content that is a sequence is decoded element by element;
\* a missing or null content decodes with the content absent; a content
\* that is present and neither a sequence nor null (a plain string) makes
\* the record fail structural validation.
C10_QueueContentStrict ==
    (EntryDecoded /\ QueueWellFormed(raw)) =>
      CASE raw.content.k = "list" -> QueueContentDecoded
        [] raw.content.k \in {"absent", "null"} ->
             result.status = "ok" /\ result.entry.content = ContentNull
        [] OTHER -> result.status = "ValidationError"

C10_Witness ==
    /\ EntryDecoded
    /\ QueueWellFormed(raw)
    /\ raw.content = ContentStr(<<"hello">>)
    /\ result.status = "ValidationError"

====
